---- MODULE Spec2Model ----
(***************************************************************************)
(* Model of syncthing's outbound dialer (lib/dialer/internal.go): the      *)
(* package initialisation that resolves the proxy dialer from the          *)
(* environment, and dialWithFallback, the two-stage dial every caller      *)
(* goes through.                                                           *)
(***************************************************************************)
EXTENDS Integers, Sequences, FiniteSets, TLC

\* ------------------------------------------------------------------ bounds

\* Number of dial calls started over one run of the process.
MaxDials == 2

\* The goroutines that dial, concurrently with each other.
CallIds == {1, 2}

\* ------------------------------------------------- the environment's values

\* Values of all_proxy: unset, not a URL, a URL of an unregistered scheme,
\* the custom "socks" scheme with user-info, the built-in "socks5" scheme.
AllProxyValues ==
    {"", "://proxy", "ftp://proxy.example:21",
     "socks://user@proxy.example:1080", "socks5://proxy.example:1080"}

\* Values of no_proxy: unset, or one excluded host name.
NoProxyValues == {"", "peer.example"}

\* Values of ALL_PROXY_NO_FALLBACK.
NoFallbackValues == {"", "1"}

\* The (network, address) pairs callers dial.
Networks == {"tcp", "ip4:icmp"}
Addrs == {"192.0.2.7:22000", "peer.example:22000", "192.0.2.7", "peer.example"}

\* ------------------------------------------------------ package net, net/url

\* net.SplitHostPort: fails on an address without a port.
SplitHostPort(addr) ==
    CASE addr = "192.0.2.7:22000"    -> [err |-> FALSE, host |-> "192.0.2.7", port |-> "22000"]
      [] addr = "peer.example:22000" -> [err |-> FALSE, host |-> "peer.example", port |-> "22000"]
      [] OTHER                       -> [err |-> TRUE, host |-> "", port |-> ""]

\* net.ParseIP(host) != nil
IsIP(host) == host = "192.0.2.7"

\* The IP address a host (a literal or a name) resolves to; the empty host
\* gives the zero IPAddr, whose String() is "<nil>".
LookupIP(host) ==
    CASE host = "192.0.2.7"    -> [err |-> FALSE, ip |-> "192.0.2.7"]
      [] host = "peer.example" -> [err |-> FALSE, ip |-> "192.0.2.7"]
      [] host = ""             -> [err |-> FALSE, ip |-> "<nil>"]
      [] OTHER                 -> [err |-> TRUE, ip |-> ""]

\* The address family of a network name ("ip4:icmp" -> "ip4").
AfNet(network) ==
    CASE network = "tcp"      -> "tcp"
      [] network = "udp"      -> "udp"
      [] network = "ip"       -> "ip"
      [] network = "ip4:icmp" -> "ip4"
      [] OTHER                -> ""

\* net.ResolveIPAddr: only for the networks ip, ip4, ip6; the address is a
\* host without a port.  An *IPAddr reports Network() "ip" and String() the IP.
ResolveIPAddr(network, addr) ==
    IF AfNet(IF network = "" THEN "ip" ELSE network) \notin {"ip", "ip4", "ip6"}
       \/ LookupIP(addr).err
    THEN [err |-> TRUE, addr |-> [network |-> "", string |-> ""]]
    ELSE [err |-> FALSE, addr |-> [network |-> "ip", string |-> LookupIP(addr).ip]]

\* url.Parse of the values of all_proxy.
NoUser == [set |-> FALSE, username |-> "", passwordSet |-> FALSE, password |-> ""]

urlParse(s) ==
    CASE s = "ftp://proxy.example:21" ->
           [err |-> FALSE, Scheme |-> "ftp", Host |-> "proxy.example:21", User |-> NoUser]
      [] s = "socks://user@proxy.example:1080" ->
           [err |-> FALSE, Scheme |-> "socks", Host |-> "proxy.example:1080",
            User |-> [set |-> TRUE, username |-> "user", passwordSet |-> FALSE, password |-> ""]]
      [] s = "socks5://proxy.example:1080" ->
           [err |-> FALSE, Scheme |-> "socks5", Host |-> "proxy.example:1080", User |-> NoUser]
      [] OTHER ->
           [err |-> TRUE, Scheme |-> "", Host |-> "", User |-> NoUser]

\* ------------------------------------------------------------------- state

VARIABLES
    env,           \* the process environment: all_proxy, no_proxy, ALL_PROXY_NO_FALLBACK
    initpc,        \* position of the package initialisation
    proxySchemes,  \* scheme names registered with proxy.RegisterDialerType
    proxyDialer,   \* package variable proxyDialer
    usingProxy,    \* package variable usingProxy
    noFallback,    \* package variable noFallback
    httpTransport, \* http.DefaultTransport: "default" or "dialer"
    logTask,       \* the detached delayed log goroutine: "none", "sleeping", "done"
    up,            \* the network: which leaf dialers currently get through
    calls,         \* the dial calls in progress, one per caller slot
    dials,         \* number of dial calls started so far
    nextConn,      \* number of connections the network has established so far
    built,         \* the addresses newDialerAddr has constructed, as a log
    sw,            \* a separatingWriter, with the log of its underlying writer
    sha,           \* package sha256: its variables, the CPU and SelectAlgo's position
    reuse          \* the address registry and a dial of dialContextReusePort

dialerVars == <<env, initpc, proxySchemes, proxyDialer, usingProxy, noFallback,
                httpTransport, logTask, up, calls, dials, nextConn>>

\* The state of the components checked apart from the dial calls.
otherVars == <<built, sw, sha, reuse>>

vars == <<dialerVars, otherVars>>

configVars == <<env, initpc, proxySchemes, proxyDialer, usingProxy, noFallback,
                httpTransport>>

\* --------------------------------------------- package golang.org/x/net/proxy

\* proxy.Direct, and the zero value of the proxyDialer variable.
Direct == [type |-> "direct"]
NilDialer == [type |-> "nil"]

\* &contextDirectDialer{ctx}, for the context of call c
contextDirectDialer(c) == [type |-> "contextDirect", ctx |-> c]

\* proxy.SOCKS5: builds the dialer, never rejects its inputs.
SOCKS5(network, addr, auth, forward) ==
    [err |-> FALSE,
     dialer |-> [type |-> "socks5", network |-> network, addr |-> addr,
                 auth |-> auth, forward |-> forward]]

NoAuth == [set |-> FALSE, User |-> "", Password |-> ""]

\* socksDialerFunction: the handler of the "socks" scheme.
socksDialerFunction(u, forward) ==
    LET auth == IF u.User.set
                THEN [set |-> TRUE, User |-> u.User.username,
                      Password |-> IF u.User.passwordSet THEN u.User.password ELSE ""]
                ELSE NoAuth
    IN  SOCKS5("tcp", u.Host, auth, forward)

\* proxy.FromURL: the built-in socks5 scheme, then the registered schemes,
\* else "unknown scheme".
FromURL(u, forward, registered) ==
    IF u.Scheme \in {"socks5", "socks5h"}
    THEN SOCKS5("tcp", u.Host, NoAuth, forward)
    ELSE IF u.Scheme \in registered
         THEN socksDialerFunction(u, forward)
         ELSE [err |-> TRUE, dialer |-> NilDialer]

\* proxy.NewPerHost(defaultDialer, bypass) and PerHost.AddFromString for a
\* value holding one host or one IP address.
NewPerHost(def, bypass) ==
    [type |-> "perhost", def |-> def, bypass |-> bypass,
     bypassIPs |-> {}, bypassHosts |-> {}]

AddFromString(p, s) ==
    IF IsIP(s) THEN [p EXCEPT !.bypassIPs = @ \cup {s}]
               ELSE [p EXCEPT !.bypassHosts = @ \cup {s}]

\* PerHost.dialerForRequest
dialerForRequest(p, host) ==
    IF IsIP(host)
    THEN IF host \in p.bypassIPs THEN p.bypass ELSE p.def
    ELSE IF host \in p.bypassHosts THEN p.bypass ELSE p.def

\* The leaf dialer a Dial on dialer d ends in: "Direct" (net.Dial), "Proxy"
\* (the SOCKS5 server), or "None" when PerHost.Dial rejects an address it
\* cannot split into host and port before dialing anything.
RECURSIVE Route(_, _, _)
Route(d, network, addr) ==
    CASE d.type = "direct"  -> "Direct"
      [] d.type = "contextDirect" -> "Direct"
      [] d.type = "socks5"  -> "Proxy"
      [] d.type = "perhost" ->
           IF SplitHostPort(addr).err THEN "None"
           ELSE Route(dialerForRequest(d, SplitHostPort(addr).host), network, addr)
      [] OTHER -> "None"

\* ------------------------------------------------------- getDialer and init

\* getDialer returning the failed constructor's nil dialer instead of forward.
getDialer_NilOnError(forward, e, registered) ==
    LET allProxy == e.all_proxy
        proxyURL == urlParse(allProxy)
        prxy     == FromURL(proxyURL, forward, registered)
        noProxy  == e.no_proxy
    IN  IF allProxy = "" THEN forward
        ELSE IF proxyURL.err THEN forward
        ELSE IF prxy.err THEN prxy.dialer
        ELSE IF noProxy = "" THEN prxy.dialer
        ELSE AddFromString(NewPerHost(prxy.dialer, forward), noProxy)

\* getDialer passing NewPerHost its two dialers in the wrong order.
getDialer_SwappedPerHost(forward, e, registered) ==
    LET allProxy == e.all_proxy
        proxyURL == urlParse(allProxy)
        prxy     == FromURL(proxyURL, forward, registered)
        noProxy  == e.no_proxy
    IN  IF allProxy = "" THEN forward
        ELSE IF proxyURL.err THEN forward
        ELSE IF prxy.err THEN forward
        ELSE IF noProxy = "" THEN prxy.dialer
        ELSE AddFromString(NewPerHost(forward, prxy.dialer), noProxy)

\* getDialer(forward): the dialer resolved from all_proxy and no_proxy.
getDialer(forward, e, registered) ==
    LET allProxy == e.all_proxy
        proxyURL == urlParse(allProxy)
        prxy     == FromURL(proxyURL, forward, registered)
        noProxy  == e.no_proxy
    IN  IF allProxy = "" THEN forward
        ELSE IF proxyURL.err THEN forward
        ELSE IF prxy.err THEN forward
        ELSE IF noProxy = "" THEN prxy.dialer
        ELSE AddFromString(NewPerHost(prxy.dialer, forward), noProxy)

NilConn == [type |-> "nil"]
NilErr == [src |-> "nil", msg |-> "", n |-> 0]

IdleCall ==
    [pc |-> "idle", network |-> "", addr |-> "",
     proxyDialFunc |-> NilDialer, fallbackDialFunc |-> NilDialer,
     ctx |-> "background", phase |-> "",
     trace |-> <<>>, hooked |-> <<>>, conn |-> NilConn, err |-> NilErr]

\* The address registry: for each network kind the local addresses the
\* listeners have bound.  No dial of dialContextReusePort is under way.
RegistryKinds == {"tcp4", "tcp6"}
NoAddr == "<nil>"
EmptyRegistry == [k \in RegistryKinds |-> {}]

ReuseIdle(registry) ==
    [registry |-> registry, started |-> 0,
     pc |-> "idle", network |-> "", addr |-> "", ctx |-> "live",
     Control |-> "", LocalAddr |-> NoAddr, seen |-> {},
     connected |-> FALSE, conn |-> NilConn, err |-> NilErr]

\* Package sha256 as loaded (lines 31-53) on a CPU with or without the four
\* AVX-512 features and numCPU cores, STHASHING set to sthashing.
defaultImpl == "crypto/sha256"
minioImpl == "minio/sha256-simd"
minioAvx512Impl == "minio/sha256-avx512"

ShaLoaded(avx512, numCPU, sthashing) ==
    [pc |-> "start", AVX512 |-> avx512, NumCPU |-> numCPU, STHASHING |-> sthashing,
     New |-> "cryptoSha256.New", selectedImpl |-> defaultImpl,
     cryptoPerf |-> 0, minioPerf |-> 0, minioAvx512Perf |-> 0,
     avx512Servers |-> 0, iter |-> 0, panic |-> ""]

\* newSeparatingWriter(w, sep); `out` is what the writer w has been called
\* with and what it answered, `ins` and `rets` what the callers of Write
\* passed and got back.
newSeparatingWriter(sep) ==
    [separator |-> sep, firstdone |-> FALSE,
     out |-> <<>>, ins |-> <<>>, rets |-> <<>>]

\* The package's variable initialisers: noFallback is read from the
\* environment before init() runs.
Init ==
    /\ env \in [all_proxy : AllProxyValues, no_proxy : NoProxyValues,
                ALL_PROXY_NO_FALLBACK : NoFallbackValues]
    /\ initpc = "start"
    /\ proxySchemes = {}
    /\ proxyDialer = NilDialer
    /\ usingProxy = FALSE
    /\ noFallback = (env.ALL_PROXY_NO_FALLBACK # "")
    /\ httpTransport = "default"
    /\ logTask = "none"
    /\ up \in [{"Direct", "Proxy"} -> BOOLEAN]
    /\ calls = [c \in CallIds |-> IdleCall]
    /\ dials = 0
    /\ nextConn = 0
    /\ built = <<>>
    /\ sw = newSeparatingWriter(<<"-">>)
    /\ sha = ShaLoaded(FALSE, 1, "")
    /\ reuse = ReuseIdle(EmptyRegistry)

\* init() registering the handler under the built-in scheme name instead.
InitRegister_WrongScheme ==
    /\ initpc = "start"
    /\ proxySchemes' = proxySchemes \cup {"socks5"}
    /\ initpc' = "registered"
    /\ UNCHANGED <<env, proxyDialer, usingProxy, noFallback, httpTransport,
                   logTask, up, calls, dials, nextConn>>
    /\ UNCHANGED otherVars

\* init(), line 34: proxy.RegisterDialerType("socks", socksDialerFunction)
InitRegister ==
    /\ initpc = "start"
    /\ proxySchemes' = proxySchemes \cup {"socks"}
    /\ initpc' = "registered"
    /\ UNCHANGED <<env, proxyDialer, usingProxy, noFallback, httpTransport,
                   logTask, up, calls, dials, nextConn>>
    /\ UNCHANGED otherVars

\* init(), lines 35-36: resolve the dialer and set usingProxy.
InitResolve ==
    /\ initpc = "registered"
    /\ proxyDialer' = getDialer(Direct, env, proxySchemes)
    /\ usingProxy' = (proxyDialer' # Direct)
    /\ initpc' = "resolved"
    /\ UNCHANGED <<env, proxySchemes, noFallback, httpTransport,
                   logTask, up, calls, dials, nextConn>>
    /\ UNCHANGED otherVars

\* init(), lines 38-58: wire the default HTTP transport when a proxy is in
\* use, and start the delayed log goroutine.
InitFinish ==
    /\ initpc = "resolved"
    /\ httpTransport' = IF usingProxy THEN "dialer" ELSE httpTransport
    /\ logTask' = "sleeping"
    /\ initpc' = "done"
    /\ UNCHANGED <<env, proxySchemes, proxyDialer, usingProxy, noFallback,
                   up, calls, dials, nextConn>>
    /\ UNCHANGED otherVars

\* The goroutine started by init(): sleeps, logs, ends.
LogTaskRun ==
    /\ logTask = "sleeping"
    /\ logTask' = "done"
    /\ UNCHANGED <<configVars, up, calls, dials, nextConn>>
    /\ UNCHANGED otherVars

\* ----------------------------------------------------------- connections

\* What the transport reports as the remote end of a connection it made:
\* the resolved address of the target for net.Dial, the SOCKS5 server for a
\* connection through the proxy.
TransportRemoteAddr(via, network, addr) ==
    IF via = "Proxy" THEN [network |-> "tcp", string |-> "198.51.100.1:1080"]
    ELSE IF AfNet(network) = "tcp"
         THEN [network |-> "tcp", string |-> "192.0.2.7:22000"]
         ELSE [network |-> "ip", string |-> LookupIP(addr).ip]

\* Whether the leaf dialer can connect at all for this (network, address):
\* net.Dial wants host:port for tcp and a bare host for ip; the SOCKS5
\* dialer only takes tcp networks and host:port addresses.
Dialable(via, network, addr) ==
    CASE via = "Direct" ->
           IF AfNet(network) = "tcp" THEN ~SplitHostPort(addr).err
                                     ELSE ~LookupIP(addr).err
      [] via = "Proxy"  -> AfNet(network) = "tcp" /\ ~SplitHostPort(addr).err
      [] OTHER          -> FALSE

\* fallbackAddr{network, addr}: Network() and String() echo the two fields.
fallbackAddr(network, addr) == [network |-> network, string |-> addr]

\* newDialerAddr handing on what the resolver returned, whatever its error.
newDialerAddr_IgnoresError(network, addr) == ResolveIPAddr(network, addr).addr

\* newDialerAddr
newDialerAddr(network, addr) ==
    LET r == ResolveIPAddr(network, addr)
    IN  IF ~r.err THEN r.addr ELSE fallbackAddr(network, addr)

\* The adapter left out: the transport's connection is returned as it is.
dialerConn_Unwrapped(conn, addr) == conn

\* dialerConn{conn, addr}
dialerConn(conn, addr) == [type |-> "dialerConn", Conn |-> conn, addr |-> addr]

\* RemoteAddr() of a returned connection: dialerConn overrides it, any
\* other connection reports the transport's.
RemoteAddr(c) == IF c.type = "dialerConn" THEN c.addr ELSE c.remote

\* The transport connection under a returned connection.
Underlying(c) == IF c.type = "dialerConn" THEN c.Conn ELSE c

\* SetTCPOptions(conn): one more invocation on conn; ok tells whether the
\* options could be set.  It returns an error that its callers drop.
SetTCPOptions(conn, ok) == [conn EXCEPT !.tcpOptions = @ + 1, !.optErr = ~ok]

\* One call of a dialFunc: d.Dial(network, addr) for dialer d, as the n-th
\* stage of a dial, with the network in state net and id the next free
\* connection number.  Returns (conn, err) and the leaf dialer it went to.
\* A connect under a context that is done fails with the context's error,
\* once the address has been accepted.
DialFunc(d, network, addr, n, net, id) ==
    LET via == Route(d, network, addr)
        ok  == Dialable(via, network, addr) /\ net[via]
    IN  IF Dialable(via, network, addr) /\ net.Cancelled
        THEN [via |-> via, conn |-> NilConn,
              err |-> [src |-> "context", msg |-> "context canceled", n |-> n]]
        ELSE IF ok
        THEN [via |-> via,
              conn |-> [type |-> "netConn", id |-> id, via |-> via,
                        remote |-> TransportRemoteAddr(via, network, addr),
                        tcpOptions |-> 0, optErr |-> FALSE],
              err |-> NilErr]
        ELSE [via |-> via, conn |-> NilConn,
              err |-> [src |-> via,
                       msg |-> IF via = "None" \/ ~Dialable(via, network, addr)
                               THEN "bad address" ELSE "connection refused",
                       n |-> n]]

\* The network as a call's next dial meets it.  The context of
\* contextDirectDialer reaches net.Dialer.DialContext only, the connect to
\* the target or to the proxy: of a SOCKS5 dial that is past that connect,
\* the negotiation with the proxy goes on without it.
Net(call) ==
    [Direct |-> up["Direct"], Proxy |-> up["Proxy"], None |-> FALSE,
     Cancelled |-> call.ctx = "done"
                     /\ ~(call.pc = "proxy" /\ call.phase = "handshake")]

TraceEntry(stage, r, network, addr) ==
    [stage |-> stage, via |-> r.via, network |-> network, addr |-> addr,
     conn |-> r.conn, err |-> r.err]

\* ------------------------------------------------------------ dialing

\* Dial(network, addr): enters dialWithFallback with the resolved dialer as
\* the proxy path and the direct dialer as the fallback.
Dial(c, network, addr) ==
    /\ initpc = "done"
    /\ calls[c].pc = "idle"
    /\ dials < MaxDials
    /\ dials' = dials + 1
    /\ calls' = [calls EXCEPT ![c] =
                   [IdleCall EXCEPT !.pc = "proxy", !.network = network, !.addr = addr,
                                    !.proxyDialFunc = proxyDialer,
                                    !.fallbackDialFunc = Direct]]
    /\ UNCHANGED <<configVars, logTask, up, nextConn>>
    /\ UNCHANGED otherVars

\* The proxy-path stage without the noFallback test of line 72.
ProxyStageResult_NoFallbackIgnored(call, nofb, net, id, hookOk) ==
    LET r == DialFunc(call.proxyDialFunc, call.network, call.addr, 1, net, id)
        t == Append(call.trace, TraceEntry("proxy", r, call.network, call.addr))
    IN  IF r.err = NilErr
        THEN [call EXCEPT !.pc = "returned", !.trace = t,
                          !.hooked = Append(@, r.conn.id),
                          !.conn = dialerConn(SetTCPOptions(r.conn, hookOk),
                                              newDialerAddr(call.network, call.addr)),
                          !.err = NilErr]
        ELSE [call EXCEPT !.pc = "fallback", !.trace = t]

\* The proxy-path stage without the return of line 66: a success runs on
\* into the code for a failure.
ProxyStageResult_FallsThrough(call, nofb, net, id, hookOk) ==
    LET r == DialFunc(call.proxyDialFunc, call.network, call.addr, 1, net, id)
        t == Append(call.trace, TraceEntry("proxy", r, call.network, call.addr))
    IN  IF nofb
        THEN [call EXCEPT !.pc = "returned", !.trace = t,
                          !.conn = r.conn, !.err = r.err]
        ELSE [call EXCEPT !.pc = "fallback", !.trace = t]

\* The proxy-path stage wrapping whatever the dialer returned before it
\* looks at the error.
ProxyStageResult_WrapsFailure(call, nofb, net, id, hookOk) ==
    LET r == DialFunc(call.proxyDialFunc, call.network, call.addr, 1, net, id)
        t == Append(call.trace, TraceEntry("proxy", r, call.network, call.addr))
        w == dialerConn(r.conn, newDialerAddr(call.network, call.addr))
    IN  IF r.err = NilErr
        THEN [call EXCEPT !.pc = "returned", !.trace = t,
                          !.hooked = Append(@, r.conn.id),
                          !.conn = dialerConn(SetTCPOptions(r.conn, hookOk),
                                              newDialerAddr(call.network, call.addr)),
                          !.err = NilErr]
        ELSE IF nofb
             THEN [call EXCEPT !.pc = "returned", !.trace = t,
                               !.conn = w, !.err = r.err]
             ELSE [call EXCEPT !.pc = "fallback", !.trace = t]

\* dialWithFallback, lines 62-74: the proxy-path stage.
ProxyStageResult(call, nofb, net, id, hookOk) ==
    LET r == DialFunc(call.proxyDialFunc, call.network, call.addr, 1, net, id)
        t == Append(call.trace, TraceEntry("proxy", r, call.network, call.addr))
    IN  IF r.err = NilErr
        THEN [call EXCEPT !.pc = "returned", !.trace = t,
                          !.hooked = Append(@, r.conn.id),
                          !.conn = dialerConn(SetTCPOptions(r.conn, hookOk),
                                              newDialerAddr(call.network, call.addr)),
                          !.err = NilErr]
        ELSE IF nofb
             THEN [call EXCEPT !.pc = "returned", !.trace = t,
                               !.conn = r.conn, !.err = r.err]
             ELSE [call EXCEPT !.pc = "fallback", !.trace = t]

\* The fallback stage assigning to shadowed variables: the values returned
\* are still those of the proxy-path stage.
FallbackStageResult_Shadowed(call, net, id, hookOk) ==
    LET r == DialFunc(call.fallbackDialFunc, call.network, call.addr, 2, net, id)
        t == Append(call.trace, TraceEntry("fallback", r, call.network, call.addr))
    IN  [call EXCEPT !.pc = "returned", !.trace = t,
                     !.conn = call.trace[1].conn, !.err = call.trace[1].err]

\* The fallback stage dialing again after a failure.
FallbackStageResult_Retries(call, net, id, hookOk) ==
    LET r == DialFunc(call.fallbackDialFunc, call.network, call.addr, 2, net, id)
        t == Append(call.trace, TraceEntry("fallback", r, call.network, call.addr))
    IN  IF r.err = NilErr
        THEN [call EXCEPT !.pc = "returned", !.trace = t,
                          !.hooked = Append(@, r.conn.id),
                          !.conn = SetTCPOptions(r.conn, hookOk), !.err = NilErr]
        ELSE [call EXCEPT !.pc = "fallback", !.trace = t]

\* The fallback stage wrapping the error it returns.
FallbackStageResult_WrapsError(call, net, id, hookOk) ==
    LET r == DialFunc(call.fallbackDialFunc, call.network, call.addr, 2, net, id)
        t == Append(call.trace, TraceEntry("fallback", r, call.network, call.addr))
    IN  IF r.err = NilErr
        THEN [call EXCEPT !.pc = "returned", !.trace = t,
                          !.hooked = Append(@, r.conn.id),
                          !.conn = SetTCPOptions(r.conn, hookOk), !.err = NilErr]
        ELSE [call EXCEPT !.pc = "returned", !.trace = t, !.conn = r.conn,
                          !.err = [src |-> "dialer", msg |-> "fallback failed", n |-> 2]]

\* The fallback stage without the SetTCPOptions call of line 79.
FallbackStageResult_NoHardening(call, net, id, hookOk) ==
    LET r == DialFunc(call.fallbackDialFunc, call.network, call.addr, 2, net, id)
        t == Append(call.trace, TraceEntry("fallback", r, call.network, call.addr))
    IN  [call EXCEPT !.pc = "returned", !.trace = t,
                     !.conn = r.conn, !.err = r.err]

\* dialWithFallback, lines 76-83: the fallback stage.
FallbackStageResult(call, net, id, hookOk) ==
    LET r == DialFunc(call.fallbackDialFunc, call.network, call.addr, 2, net, id)
        t == Append(call.trace, TraceEntry("fallback", r, call.network, call.addr))
    IN  IF r.err = NilErr
        THEN [call EXCEPT !.pc = "returned", !.trace = t,
                          !.hooked = Append(@, r.conn.id),
                          !.conn = SetTCPOptions(r.conn, hookOk), !.err = NilErr]
        ELSE [call EXCEPT !.pc = "returned", !.trace = t,
                          !.conn = r.conn, !.err = r.err]

\* The number of connections the stage that produced `call` established.
Established(call) ==
    IF call.trace[Len(call.trace)].conn # NilConn THEN 1 ELSE 0

\* The proxy-path stage giving up on the proxy for the rest of the process
\* once an attempt through it has failed.
ProxyStage_DisablesProxy(c) ==
    /\ calls[c].pc = "proxy"
    /\ \E hookOk \in BOOLEAN :
       LET new == ProxyStageResult(calls[c], noFallback, Net(calls[c]), nextConn + 1, hookOk)
       IN  /\ calls' = [calls EXCEPT ![c] = new]
           /\ nextConn' = nextConn + Established(new)
           /\ IF new.trace[1].err # NilErr
              THEN proxyDialer' = Direct /\ usingProxy' = FALSE
              ELSE UNCHANGED <<proxyDialer, usingProxy>>
    /\ UNCHANGED <<env, initpc, proxySchemes, noFallback, httpTransport,
                   logTask, up, dials>>
    /\ UNCHANGED otherVars

\* The proxy-path stage with a connection cache: a connection another call
\* holds to the same (network, address) is handed out again.
ProxyStage_ReusesConn(c) ==
    /\ calls[c].pc = "proxy"
    /\ \E hookOk \in BOOLEAN :
       LET new == ProxyStageResult(calls[c], noFallback, Net(calls[c]), nextConn + 1, hookOk)
           held == {d \in CallIds \ {c} :
                      /\ calls[d].pc = "returned" /\ calls[d].err = NilErr
                      /\ calls[d].network = calls[c].network
                      /\ calls[d].addr = calls[c].addr}
       IN  IF held # {}
           THEN /\ \E d \in held :
                     calls' = [calls EXCEPT ![c] =
                                 [new EXCEPT !.pc = "returned", !.err = NilErr,
                                             !.conn = calls[d].conn]]
                /\ UNCHANGED nextConn
           ELSE /\ calls' = [calls EXCEPT ![c] = new]
                /\ nextConn' = nextConn + Established(new)
    /\ UNCHANGED <<configVars, logTask, up, dials>>
    /\ UNCHANGED otherVars

\* dialWithFallback up to its first return or its fallback call.
ProxyStage(c) ==
    /\ calls[c].pc = "proxy"
    /\ \E hookOk \in BOOLEAN :
       LET new == ProxyStageResult(calls[c], noFallback, Net(calls[c]), nextConn + 1, hookOk)
       IN  /\ calls' = [calls EXCEPT ![c] = new]
           /\ nextConn' = nextConn + Established(new)
    /\ UNCHANGED <<configVars, logTask, up, dials>>
    /\ UNCHANGED otherVars

FallbackStage(c) ==
    /\ calls[c].pc = "fallback"
    /\ \E hookOk \in BOOLEAN :
       LET new == FallbackStageResult(calls[c], Net(calls[c]), nextConn + 1, hookOk)
       IN  /\ calls' = [calls EXCEPT ![c] = new]
           /\ nextConn' = nextConn + Established(new)
    /\ UNCHANGED <<configVars, logTask, up, dials>>
    /\ UNCHANGED otherVars

\* The caller takes the result; its slot is free for the next dial.
Return(c) ==
    /\ calls[c].pc = "returned"
    /\ calls' = [calls EXCEPT ![c] = IdleCall]
    /\ UNCHANGED <<configVars, logTask, up, dials, nextConn>>
    /\ UNCHANGED otherVars

\* The network changes under the program: the target or the proxy becomes
\* reachable or unreachable.
NetChange ==
    /\ \E v \in {"Direct", "Proxy"} : up' = [up EXCEPT ![v] = ~@]
    /\ UNCHANGED <<configVars, logTask, calls, dials, nextConn>>
    /\ UNCHANGED otherVars

Next ==
    \/ InitRegister
    \/ InitResolve
    \/ InitFinish
    \/ LogTaskRun
    \/ \E c \in CallIds, network \in Networks, addr \in Addrs : Dial(c, network, addr)
    \/ \E c \in CallIds : ProxyStage(c)
    \/ \E c \in CallIds : FallbackStage(c)
    \/ \E c \in CallIds : Return(c)
    \/ NetChange

Spec == Init /\ [][Next]_vars

\* ------------------------------------------------- dialing under a context

\* DialContext(ctx, network, addr): as Dial, with the chain resolved over a
\* direct dialer that carries the caller's context, and that dialer as the
\* fallback.
DialContext(c, network, addr) ==
    /\ initpc = "done"
    /\ calls[c].pc = "idle"
    /\ dials < MaxDials
    /\ dials' = dials + 1
    /\ calls' = [calls EXCEPT ![c] =
                   [IdleCall EXCEPT
                      !.pc = "proxy", !.network = network, !.addr = addr,
                      !.ctx = "live",
                      !.proxyDialFunc = getDialer(contextDirectDialer(c), env, proxySchemes),
                      !.fallbackDialFunc = contextDirectDialer(c)]]
    /\ UNCHANGED <<configVars, logTask, up, nextConn>>
    /\ UNCHANGED otherVars

\* The caller cancels the context, or its deadline passes, before the dial
\* has returned.
CancelCtx(c) ==
    /\ calls[c].pc \in {"proxy", "fallback"}
    /\ calls[c].ctx = "live"
    /\ calls' = [calls EXCEPT ![c].ctx = "done"]
    /\ UNCHANGED <<configVars, logTask, up, dials, nextConn>>
    /\ UNCHANGED otherVars

\* Whether the current stage's dial has been entered and not yet returned.
InFlight(call) ==
    \/ call.pc = "proxy" /\ call.phase \in {"connect", "handshake"}
    \/ call.pc = "fallback" /\ call.phase = "fallback connect"

\* contextDirectDialer.Dial, or the chain around it, is entered: the
\* connect of net.Dialer.DialContext is in flight.
ConnectBegin(c) ==
    /\ calls[c].pc \in {"proxy", "fallback"}
    /\ ~InFlight(calls[c])
    /\ calls' = [calls EXCEPT ![c].phase =
                   IF calls[c].pc = "proxy" THEN "connect" ELSE "fallback connect"]
    /\ UNCHANGED <<configVars, logTask, up, dials, nextConn>>
    /\ UNCHANGED otherVars

\* The SOCKS5 dialer's forward dial has connected to the proxy under a
\* context still live; the negotiation for the target begins.
HandshakeBegin(c) ==
    /\ calls[c].pc = "proxy" /\ calls[c].phase = "connect"
    /\ Route(calls[c].proxyDialFunc, calls[c].network, calls[c].addr) = "Proxy"
    /\ Dialable("Proxy", calls[c].network, calls[c].addr)
    /\ calls[c].ctx # "done"
    /\ up["Proxy"]
    /\ calls' = [calls EXCEPT ![c].phase = "handshake"]
    /\ UNCHANGED <<configVars, logTask, up, dials, nextConn>>
    /\ UNCHANGED otherVars

\* The stage's dial returns and dialWithFallback goes on.
ProxyStageEnd(c) == InFlight(calls[c]) /\ ProxyStage(c)
FallbackStageEnd(c) == InFlight(calls[c]) /\ FallbackStage(c)

\* One caller dials under a context; the package initialisation and the
\* network are as before.
CtxCallIds == {1}

NextCtx ==
    \/ InitRegister
    \/ InitResolve
    \/ InitFinish
    \/ LogTaskRun
    \/ \E c \in CtxCallIds, network \in Networks, addr \in Addrs : DialContext(c, network, addr)
    \/ \E c \in CtxCallIds : CancelCtx(c)
    \/ \E c \in CtxCallIds : ConnectBegin(c)
    \/ \E c \in CtxCallIds : HandshakeBegin(c)
    \/ \E c \in CtxCallIds : ProxyStageEnd(c)
    \/ \E c \in CtxCallIds : FallbackStageEnd(c)
    \/ \E c \in CtxCallIds : Return(c)
    \/ NetChange

SpecCtx == Init /\ [][NextCtx]_vars

\* ------------------------------------------------------------ properties

Started(c) == calls[c].trace # <<>>
Returned(c) == calls[c].pc = "returned"
ProxyFailed(c) == Started(c) /\ calls[c].trace[1].err # NilErr
ProxySucceeded(c) == Started(c) /\ calls[c].trace[1].err = NilErr
FallbackInvoked(c) ==
    \E i \in 1..Len(calls[c].trace) : calls[c].trace[i].stage = "fallback"
Requested(c) == [network |-> calls[c].network, string |-> calls[c].addr]

\* C1: with noFallback set, a dial whose proxy-path attempt failed has
\* returned exactly that attempt's error and never invoked the fallback
\* dialer, whether or not the target is directly reachable.
C1_NoFallbackReturnsProxyError ==
    \A c \in CallIds :
        (noFallback /\ ProxyFailed(c)) =>
            /\ Returned(c)
            /\ calls[c].err = calls[c].trace[1].err
            /\ calls[c].trace[1].stage = "proxy"
            /\ Len(calls[c].trace) = 1
            /\ ~FallbackInvoked(c)

\* C1, witness: a no-fallback dial through an unreachable proxy to a target that a direct
\* dial would reach.
C1_Witness ==
    \E c \in CallIds :
        /\ noFallback /\ Returned(c) /\ ProxyFailed(c)
        /\ calls[c].trace[1].via = "Proxy"
        /\ up["Direct"] /\ Dialable("Direct", calls[c].network, calls[c].addr)

\* C2: with noFallback unset, a dial whose proxy-path attempt failed invokes
\* the direct dialer second, with the same (network, address), and when that
\* attempt succeeds the dial returns success with the connection it made.
C2_FallbackAfterProxyFailure ==
    \A c \in CallIds :
        (~noFallback /\ ProxyFailed(c)) =>
            /\ calls[c].pc \in {"fallback", "returned"}
            /\ calls[c].pc = "fallback" => Len(calls[c].trace) = 1
            /\ Returned(c) =>
                 LET t == calls[c].trace IN
                 /\ Len(t) = 2
                 /\ t[1].stage = "proxy" /\ t[2].stage = "fallback"
                 /\ t[2].via = "Direct"
                 /\ t[2].network = calls[c].network /\ t[2].addr = calls[c].addr
                 /\ t[2].err = NilErr =>
                      /\ calls[c].err = NilErr
                      /\ calls[c].conn # NilConn
                      /\ Underlying(calls[c].conn).id = t[2].conn.id

\* C2, witness: the proxy is down, the target is up: the dial succeeds by the fallback.
C2_Witness ==
    \E c \in CallIds :
        /\ ~noFallback /\ Returned(c) /\ ProxyFailed(c)
        /\ calls[c].trace[1].via = "Proxy"
        /\ Len(calls[c].trace) = 2 /\ calls[c].trace[2].err = NilErr
        /\ calls[c].err = NilErr

\* C3: a connection returned from the fallback stage is wrapped in the
\* address adapter, so its RemoteAddr() is the requested (network, address).
C3_FallbackConnWrapped ==
    \A c \in CallIds :
        (Returned(c) /\ Len(calls[c].trace) = 2 /\ calls[c].err = NilErr) =>
            /\ calls[c].conn.type = "dialerConn"
            /\ RemoteAddr(calls[c].conn) = Requested(c)

C5_ProxySuccessIsTerminal ==
    \A c \in CallIds :
        ProxySucceeded(c) =>
            /\ Returned(c)
            /\ Len(calls[c].trace) = 1
            /\ ~FallbackInvoked(c)
            /\ calls[c].err = NilErr

\* C5, witness: a proxy-path success while the fallback is enabled.
C5_Witness ==
    \E c \in CallIds : ~noFallback /\ usingProxy /\ ProxySucceeded(c) /\ Returned(c)

StagesOf(c, stage) ==
    {i \in 1..Len(calls[c].trace) : calls[c].trace[i].stage = stage}

\* C6: a dial makes at most two attempts, at most one per stage and the
\* proxy stage first, and then returns; a dial that has not returned can
\* always take its next stage, and each stage adds one attempt, so the dial
\* ends when its attempts end.
C6_AtMostTwoAttempts ==
    \A c \in CallIds :
        LET t == calls[c].trace IN
        /\ Len(t) <= 2
        /\ Cardinality(StagesOf(c, "proxy")) <= 1
        /\ Cardinality(StagesOf(c, "fallback")) <= 1
        /\ Len(t) >= 1 => t[1].stage = "proxy"
        /\ Len(t) = 2 => (t[2].stage = "fallback" /\ Returned(c))
        /\ calls[c].pc = "proxy" => (Len(t) = 0 /\ ENABLED ProxyStage(c))
        /\ calls[c].pc = "fallback" => (Len(t) = 1 /\ ENABLED FallbackStage(c))

\* C6, witness: a dial that used both attempts and returned.
C6_Witness ==
    \E c \in CallIds :
        /\ Returned(c) /\ Len(calls[c].trace) = 2
        /\ calls[c].trace[1].via = "Proxy" /\ calls[c].trace[2].via = "Direct"

\* C7: the error of a failed dial is the very error value of the stage that
\* failed last: the fallback attempt's, not the proxy attempt's, when the
\* fallback is enabled; the proxy attempt's when it is disabled.
C7_ErrorIsLastStageError ==
    \A c \in CallIds :
        (Returned(c) /\ calls[c].err # NilErr) =>
            LET t == calls[c].trace IN
            /\ noFallback =>
                 (Len(t) = 1 /\ t[1].stage = "proxy" /\ calls[c].err = t[1].err)
            /\ ~noFallback =>
                 /\ Len(t) = 2 /\ t[2].stage = "fallback"
                 /\ t[1].err # NilErr
                 /\ calls[c].err = t[2].err
                 /\ calls[c].err # t[1].err

\* C7, witness: both attempts failed, through the proxy and directly.
C7_Witness ==
    \E c \in CallIds :
        /\ ~noFallback /\ Returned(c) /\ calls[c].err # NilErr
        /\ calls[c].trace[1].via = "Proxy"
        /\ calls[c].trace[2].err.msg = "connection refused"

UsableProxyValues ==
    {"socks://user@proxy.example:1080", "socks5://proxy.example:1080"}

\* C9: initialisation always runs to its end; the resolved dialer is the
\* direct dialer and usingProxy is false when all_proxy is empty, is no URL
\* or names a scheme without a dialer; usingProxy is true exactly when
\* all_proxy names a usable proxy, with no_proxy set or not.
C9_ResolutionNeverFails ==
    /\ initpc \in {"start", "registered", "resolved", "done"}
    /\ initpc = "start" => ENABLED InitRegister
    /\ initpc = "registered" => ENABLED InitResolve
    /\ initpc = "resolved" => ENABLED InitFinish
    /\ initpc \in {"resolved", "done"} =>
         /\ usingProxy <=> (env.all_proxy \in UsableProxyValues)
         /\ env.all_proxy \notin UsableProxyValues => proxyDialer = Direct
         /\ usingProxy => proxyDialer.type \in {"socks5", "perhost"}

\* C9, witness: initialisation finished with an all_proxy that is not a URL while
\* no_proxy is set.
C9_Witness ==
    /\ initpc = "done" /\ env.all_proxy = "://proxy" /\ env.no_proxy # ""
    /\ proxyDialer = Direct /\ ~usingProxy

\* The host a destination address names.
DestHost(addr) == IF SplitHostPort(addr).err THEN addr ELSE SplitHostPort(addr).host
Excluded(addr) == env.no_proxy # "" /\ DestHost(addr) = env.no_proxy

\* C10 as stated: with a usable proxy, the first attempt to an excluded
\* destination is direct, and the first attempt to any other destination,
\* or to any destination when no_proxy is empty, is through the proxy.
C10_ExclusionRouting ==
    \A c \in CallIds :
        (usingProxy /\ Started(c)) =>
            /\ Excluded(calls[c].addr) => calls[c].trace[1].via = "Direct"
            /\ ~Excluded(calls[c].addr) => calls[c].trace[1].via = "Proxy"

\* C10, amended: with a usable proxy and an exclusion list, the first attempt
\* to a host:port destination is direct when its host is excluded and through
\* the proxy when it is not; a destination that is not of host:port form is
\* refused by the exclusion layer before any dialer is contacted; with an
\* empty exclusion list every first attempt is through the proxy.
C10_ExclusionRoutingHostPort ==
    \A c \in CallIds :
        (usingProxy /\ Started(c)) =>
            LET first == calls[c].trace[1]
                wellFormed == ~SplitHostPort(calls[c].addr).err
            IN  /\ (wellFormed /\ Excluded(calls[c].addr)) => first.via = "Direct"
                /\ (wellFormed /\ ~Excluded(calls[c].addr)) => first.via = "Proxy"
                /\ (env.no_proxy # "" /\ ~wellFormed) =>
                       (first.via = "None" /\ first.err # NilErr)
                /\ env.no_proxy = "" => first.via = "Proxy"

\* C10, witness: an excluded host was reached directly while the proxy was configured.
C10_Witness ==
    \E c \in CallIds :
        /\ usingProxy /\ Returned(c) /\ Excluded(calls[c].addr)
        /\ calls[c].trace[1].via = "Direct" /\ calls[c].err = NilErr
        /\ calls[c].conn.type = "dialerConn"

\* The package variables that hold the proxy configuration.
proxyConfig == <<proxyDialer, usingProxy, noFallback>>

\* C11: the proxy configuration is written only by the initialisation,
\* before any dial has started and before the log goroutine exists; no step
\* of a dial or of the log goroutine changes it, and every dial in progress
\* holds the dialer resolved at initialisation.
C11_ConfigWrittenOnlyAtInit ==
    [][ /\ proxyConfig' # proxyConfig =>
              /\ initpc \in {"start", "registered"}
              /\ dials = 0 /\ logTask = "none"
              /\ \A c \in CallIds : calls[c].pc = "idle"
        /\ \A c \in CallIds :
              calls'[c].pc # "idle" =>
                  /\ initpc' = "done"
                  /\ calls'[c].proxyDialFunc = proxyDialer'
                  /\ noFallback' = (env'.ALL_PROXY_NO_FALLBACK # "") ]_vars

\* C11, witness: two dials are in progress through the proxy while the log
\* goroutine has not run yet.
C11_Witness ==
    /\ usingProxy /\ logTask = "sleeping"
    /\ calls[1].pc = "fallback" /\ calls[2].pc = "proxy"

\* Outcome of the i-th attempt of call c: whether it got through.
AttemptOk(c, i) == calls[c].trace[i].err = NilErr

\* What a caller can observe of a call, but for the identity of the
\* connection: where it stands, the dialers it went to, its result.
Observable(c) ==
    [pc     |-> calls[c].pc,
     route  |-> [i \in 1..Len(calls[c].trace) |->
                   <<calls[c].trace[i].stage, calls[c].trace[i].via>>],
     err    |-> calls[c].err,
     kind   |-> calls[c].conn.type,
     remote |-> IF calls[c].conn = NilConn THEN fallbackAddr("", "")
                ELSE RemoteAddr(calls[c].conn)]

\* C12: dial calls share nothing: a step of one call leaves every other call
\* as it was; two calls with the same (network, address) whose attempts met
\* the same reachability went to the same dialers and have the same result;
\* and a call that returns success returns a connection established by that
\* very step, which no other call holds.
C12_CallsIndependent ==
    [][ /\ \A c, d \in CallIds :
              (c # d /\ calls'[c] # calls[c]) => calls'[d] = calls[d]
        /\ \A c \in CallIds :
              (calls'[c].pc = "returned" /\ calls[c].pc # "returned"
                 /\ calls'[c].err = NilErr) =>
                  /\ nextConn' = nextConn + 1
                  /\ Underlying(calls'[c].conn).id = nextConn'
                  /\ \A d \in CallIds \ {c} :
                        calls'[d].conn # NilConn =>
                            Underlying(calls'[d].conn).id < nextConn'
        /\ \A c, d \in CallIds :
              (/\ calls[c].pc # "idle" /\ calls[d].pc # "idle"
               /\ calls[c].network = calls[d].network
               /\ calls[c].addr = calls[d].addr
               /\ Len(calls[c].trace) = Len(calls[d].trace)
               /\ \A i \in 1..Len(calls[c].trace) : AttemptOk(c, i) <=> AttemptOk(d, i))
              => Observable(c) = Observable(d) ]_vars

\* C12, witness: two calls with the same (network, address) have both
\* succeeded, each with a connection of its own.
C12_Witness ==
    /\ Returned(1) /\ Returned(2)
    /\ calls[1].network = calls[2].network /\ calls[1].addr = calls[2].addr
    /\ calls[1].err = NilErr /\ calls[2].err = NilErr
    /\ Underlying(calls[1].conn).id # Underlying(calls[2].conn).id

\* C13: SetTCPOptions has been invoked exactly once, on the connection
\* returned, whenever a dial returns success, on the proxy path and on the
\* fallback path; it is not invoked for an attempt that failed; and a dial
\* whose last attempt got through returns success with that connection
\* whether or not the options could be set.
C13_HardenedOnce ==
    \A c \in CallIds :
        LET t == calls[c].trace IN
        /\ calls[c].pc = "fallback" => calls[c].hooked = <<>>
        /\ (Returned(c) /\ t[Len(t)].err # NilErr) =>
              (calls[c].hooked = <<>> /\ calls[c].err # NilErr)
        /\ (Returned(c) /\ t[Len(t)].err = NilErr) =>
              /\ calls[c].err = NilErr
              /\ calls[c].conn # NilConn
              /\ Underlying(calls[c].conn).id = t[Len(t)].conn.id
              /\ calls[c].hooked = <<t[Len(t)].conn.id>>
              /\ Underlying(calls[c].conn).tcpOptions = 1

\* C13, witness: a dial succeeded by the fallback although the options
\* could not be set on its connection.
C13_Witness ==
    \E c \in CallIds :
        /\ Returned(c) /\ Len(calls[c].trace) = 2 /\ calls[c].err = NilErr
        /\ Underlying(calls[c].conn).optErr
        /\ Underlying(calls[c].conn).tcpOptions = 1

\* The proxy a resolved dialer sends non-excluded destinations through.
DefaultOf(d) == IF d.type = "perhost" THEN d.def ELSE d

\* C17: the set of registered schemes changes in one step only, the first
\* of the initialisation, from empty to {"socks"}, while proxyDialer is
\* still unset; proxyDialer is written only after that step; and once it is
\* written for an all_proxy URL of scheme "socks" it is a SOCKS5 dialer for
\* the URL's host that forwards through the direct dialer, so that
\* usingProxy is set.
C17_SocksRegisteredBeforeResolve ==
    [][ /\ proxySchemes' # proxySchemes =>
              /\ initpc = "start" /\ initpc' = "registered"
              /\ proxySchemes = {} /\ proxySchemes' = {"socks"}
              /\ proxyDialer = NilDialer /\ proxyDialer' = NilDialer
        /\ initpc' # initpc =>
              <<initpc, initpc'>> \in {<<"start", "registered">>,
                                       <<"registered", "resolved">>,
                                       <<"resolved", "done">>}
        /\ proxyDialer' # proxyDialer =>
              (initpc = "registered" /\ proxySchemes = {"socks"})
        /\ (initpc' \in {"resolved", "done"}
              /\ urlParse(env.all_proxy).Scheme = "socks") =>
              /\ DefaultOf(proxyDialer').type = "socks5"
              /\ DefaultOf(proxyDialer').addr = urlParse(env.all_proxy).Host
              /\ DefaultOf(proxyDialer').forward = Direct
              /\ usingProxy' ]_vars

\* C17, witness: the initialisation has resolved a "socks" URL and a dial
\* went through the resulting proxy dialer.
C17_Witness ==
    /\ initpc = "done"
    /\ urlParse(env.all_proxy).Scheme = "socks"
    /\ DefaultOf(proxyDialer).type = "socks5"
    /\ \E c \in CallIds :
          /\ Returned(c) /\ calls[c].err = NilErr /\ Len(calls[c].trace) = 1
          /\ calls[c].trace[1].via = "Proxy"

\* The exit of dialWithFallback a returned call left by.
Exit(c) ==
    LET t == calls[c].trace IN
    IF Len(t) = 1
    THEN IF t[1].err = NilErr THEN "proxy success" ELSE "proxy failure"
    ELSE IF t[2].err = NilErr THEN "fallback success" ELSE "fallback failure"

\* C18: a returned dial holds a connection exactly when its error is nil, on
\* each of the four exits; a proxy failure is an exit only when the fallback
\* is disabled.
C18_ConnXorError ==
    \A c \in CallIds :
        Returned(c) =>
            /\ (calls[c].err = NilErr) <=> (calls[c].conn # NilConn)
            /\ calls[c].conn # NilConn => Underlying(calls[c].conn) # NilConn
            /\ Exit(c) \in {"proxy success", "fallback success"} =>
                  (calls[c].err = NilErr /\ calls[c].conn # NilConn)
            /\ Exit(c) \in {"proxy failure", "fallback failure"} =>
                  (calls[c].err # NilErr /\ calls[c].conn = NilConn)
            /\ Exit(c) = "proxy failure" => noFallback

\* C18, witness: one dial left by the proxy failure exit and another by the
\* proxy success exit.
C18_Witness ==
    /\ Returned(1) /\ Exit(1) = "proxy failure" /\ calls[1].conn = NilConn
    /\ Returned(2) /\ Exit(2) = "proxy success" /\ calls[2].err = NilErr

\* ---------------------------------------------------- address construction

\* newDialerAddr is exported to no caller's choice of arguments: any
\* network name and any address string can reach it.
MaxAddrs == 2
AddrNetworks == Networks \cup {"", "ip", "udp"}
AddrStrings == Addrs \cup {"", "nx.invalid"}

\* The dial calls at rest, while another component is exercised.
DialerAtRest ==
    /\ env = [all_proxy |-> "", no_proxy |-> "", ALL_PROXY_NO_FALLBACK |-> ""]
    /\ initpc = "start"
    /\ proxySchemes = {}
    /\ proxyDialer = NilDialer
    /\ usingProxy = FALSE
    /\ noFallback = FALSE
    /\ httpTransport = "default"
    /\ logTask = "none"
    /\ up = [v \in {"Direct", "Proxy"} |-> TRUE]
    /\ calls = [c \in CallIds |-> IdleCall]
    /\ dials = 0
    /\ nextConn = 0

InitAddr ==
    /\ DialerAtRest /\ built = <<>>
    /\ sw = newSeparatingWriter(<<"-">>) /\ sha = ShaLoaded(FALSE, 1, "")
    /\ reuse = ReuseIdle(EmptyRegistry)

\* One call of newDialerAddr(network, addr), its result logged.
NewDialerAddr(network, addr) ==
    /\ Len(built) < MaxAddrs
    /\ built' = Append(built, [network |-> network, addr |-> addr,
                               result |-> newDialerAddr(network, addr)])
    /\ UNCHANGED <<dialerVars, sw, sha, reuse>>

NextAddr == \E network \in AddrNetworks, addr \in AddrStrings : NewDialerAddr(network, addr)

SpecAddr == InitAddr /\ [][NextAddr]_vars

\* C15: every call of newDialerAddr yields an address, a value with a
\* Network() and a String(); when net.ResolveIPAddr fails for the pair the
\* address reports the network and the address string it was given,
\* unchanged, and otherwise it is the address the resolver returned.
C15_AddrTotal ==
    \A i \in DOMAIN built :
        LET b == built[i]
            r == ResolveIPAddr(b.network, b.addr)
        IN  /\ DOMAIN b.result = {"network", "string"}
            /\ r.err => (b.result.network = b.network /\ b.result.string = b.addr)
            /\ ~r.err => (b.result = r.addr /\ b.result.network = "ip")

\* C15, witness: an address built for a host that does not resolve, and one
\* for a tcp host:port pair, which net.ResolveIPAddr rejects.
C15_Witness ==
    \E i, j \in DOMAIN built :
        /\ built[i].network = "ip" /\ built[i].addr = "nx.invalid"
        /\ built[i].result = [network |-> "ip", string |-> "nx.invalid"]
        /\ built[j].network = "tcp" /\ built[j].addr = "peer.example:22000"
        /\ built[j].result = [network |-> "tcp", string |-> "peer.example:22000"]

\* ------------------------------------------------------- separatingWriter

MaxWrites == 3

\* Byte slices, as sequences: separators and data blocks, the empty one
\* among them.
Separators == {<<>>, <<"-">>}
Blocks == {<<>>, <<"a">>, <<"-">>}

\* What an io.Writer may answer to Write(p): all of p written and no error,
\* or fewer bytes and an error.
WriterResults(p) ==
    {[n |-> Len(p), err |-> FALSE]} \cup {[n |-> k, err |-> TRUE] : k \in 0..(Len(p) - 1)}
        \cup {[n |-> 0, err |-> TRUE]}

InitSw ==
    /\ DialerAtRest /\ built = <<>> /\ sha = ShaLoaded(FALSE, 1, "")
    /\ reuse = ReuseIdle(EmptyRegistry)
    /\ \E sep \in Separators : sw = newSeparatingWriter(sep)

\* Write with the separator written ahead of every block, the first too.
Write_SeparatorAlways(data) ==
    /\ Len(sw.ins) < MaxWrites
    /\ \E sepRes \in WriterResults(sw.separator), dataRes \in WriterResults(data) :
          sw' = [sw EXCEPT !.firstdone = TRUE,
                           !.out = @ \o <<[p |-> sw.separator, res |-> sepRes],
                                          [p |-> data, res |-> dataRes]>>,
                           !.ins = Append(@, data),
                           !.rets = Append(@, dataRes)]
    /\ UNCHANGED <<dialerVars, built, sha, reuse>>

\* separatingWriter.Write(data)
Write(data) ==
    /\ Len(sw.ins) < MaxWrites
    /\ \E sepRes \in WriterResults(sw.separator), dataRes \in WriterResults(data) :
          sw' = [sw EXCEPT !.firstdone = TRUE,
                           !.out = IF sw.firstdone
                                   THEN @ \o <<[p |-> sw.separator, res |-> sepRes],
                                               [p |-> data, res |-> dataRes]>>
                                   ELSE Append(@, [p |-> data, res |-> dataRes]),
                           !.ins = Append(@, data),
                           !.rets = Append(@, dataRes)]
    /\ UNCHANGED <<dialerVars, built, sha, reuse>>

NextSw == \E data \in Blocks : Write(data)

SpecSw == InitSw /\ [][NextSw]_vars

\* C19: after n calls of Write the underlying writer has been called 2n-1
\* times (not at all for n = 0): with the k-th data block as its call 2k-1
\* and with the separator as its call 2k, for each k below n; and the k-th
\* Write returned what the underlying writer answered to the k-th data
\* block, whatever it answered to the separator.
C19_SeparatorsBetweenBlocks ==
    LET n == Len(sw.ins) IN
    /\ Len(sw.out) = IF n = 0 THEN 0 ELSE 2 * n - 1
    /\ Len(sw.rets) = n
    /\ sw.firstdone <=> n > 0
    /\ \A k \in 1..n :
          /\ sw.out[2 * k - 1].p = sw.ins[k]
          /\ sw.rets[k] = sw.out[2 * k - 1].res
    /\ \A k \in 1..(n - 1) : sw.out[2 * k].p = sw.separator

\* C19, witness: three blocks written, the separator "-" between them; the
\* first separator write failed and the Write that made it returned success.
C19_Witness ==
    /\ Len(sw.ins) = 3 /\ Len(sw.out) = 5
    /\ sw.separator = <<"-">> /\ sw.ins[2] = <<"a">>
    /\ sw.out[2].res.err /\ sw.out[2].p = <<"-">>
    /\ sw.rets[2] = [n |-> 1, err |-> FALSE]

\* ----------------------------------------------------------- package sha256

benchmarkingIterations == 3

\* runtime.NumCPU(), the values of STHASHING, and the rates cpuBenchOnce
\* measures (non-negative; equal rates and zero rates among them).
NumCPUs == {1, 2}
HashingValues == {"", "minio", "minio-avx512", "standard"}
Rates == {0, 1, 2}

Max(a, b) == IF a >= b THEN a ELSE b

InitSha ==
    /\ DialerAtRest /\ built = <<>> /\ sw = newSeparatingWriter(<<"-">>)
    /\ reuse = ReuseIdle(EmptyRegistry)
    /\ \E avx512 \in BOOLEAN, numCPU \in NumCPUs, sthashing \in HashingValues :
          sha = ShaLoaded(avx512, numCPU, sthashing)

\* SelectAlgo, lines 58-64: one AVX-512 server per core when the CPU has
\* the four features.
DetectAVX512 ==
    /\ sha.pc = "start"
    /\ sha' = [sha EXCEPT !.avx512Servers = IF sha.AVX512 THEN @ + sha.NumCPU ELSE @,
                          !.pc = IF sha.STHASHING = "" THEN "benchmark" ELSE "select"]
    /\ UNCHANGED <<dialerVars, built, sw, reuse>>

\* benchmark, one turn of its loop: each rate kept when it exceeds the best
\* so far; the AVX-512 implementation is measured only with servers.
BenchmarkIteration ==
    /\ sha.pc = "benchmark"
    /\ sha.iter < benchmarkingIterations
    /\ \E c \in Rates, m \in Rates, a \in Rates :
          sha' = [sha EXCEPT
                    !.cryptoPerf = Max(@, c),
                    !.minioPerf = Max(@, m),
                    !.minioAvx512Perf = IF sha.avx512Servers > 0 THEN Max(@, a) ELSE @,
                    !.iter = @ + 1,
                    !.pc = IF sha.iter + 1 = benchmarkingIterations THEN "select" ELSE @]
    /\ UNCHANGED <<dialerVars, built, sw, reuse>>

selectMinio(h) == [h EXCEPT !.New = "minioSha256.New", !.selectedImpl = minioImpl]
selectMinioAvx512(h) == [h EXCEPT !.New = "minioAvx512New", !.selectedImpl = minioAvx512Impl]

\* SelectAlgo, lines 65-91: the switch on STHASHING, and for the unset
\* value the switch on the best rate, whose first equal case is taken.
SelectImpl ==
    /\ sha.pc = "select"
    /\ LET bestPerf == Max(Max(sha.minioPerf, sha.minioAvx512Perf), sha.cryptoPerf)
           h == CASE sha.STHASHING = "" ->
                       IF bestPerf = sha.minioPerf THEN selectMinio(sha)
                       ELSE IF bestPerf = sha.minioAvx512Perf THEN selectMinioAvx512(sha)
                       ELSE sha
                  [] sha.STHASHING = "minio" -> selectMinio(sha)
                  [] sha.STHASHING = "minio-avx512" -> selectMinioAvx512(sha)
                  [] OTHER -> sha
       IN  sha' = [h EXCEPT !.pc = "verify"]
    /\ UNCHANGED <<dialerVars, built, sw, reuse>>

\* New() of the selected implementation: minioAvx512New computes an index
\* modulo len(avx512Servers), which panics when the list is empty.
NewPanics(h) == h.New = "minioAvx512New" /\ h.avx512Servers = 0

\* SelectAlgo, line 93: verifyCorrectness creates a hash with New().
verifyCorrectness ==
    /\ sha.pc = "verify"
    /\ sha' = IF NewPanics(sha)
              THEN [sha EXCEPT !.pc = "panicked",
                               !.panic = "integer divide by zero"]
              ELSE [sha EXCEPT !.pc = "done"]
    /\ UNCHANGED <<dialerVars, built, sw, reuse>>

NextSha ==
    \/ DetectAVX512
    \/ BenchmarkIteration
    \/ SelectImpl
    \/ verifyCorrectness

SpecSha == InitSha /\ [][NextSha]_vars

\* The measured rate of the selected implementation.
SelectedRate ==
    CASE sha.selectedImpl = defaultImpl -> sha.cryptoPerf
      [] sha.selectedImpl = minioImpl -> sha.minioPerf
      [] sha.selectedImpl = minioAvx512Impl -> sha.minioAvx512Perf

\* With STHASHING unset, the selected implementation's rate is the maximum
\* of the three rates.
SelectedRateIsMax ==
    (sha.STHASHING = "" /\ sha.pc \in {"verify", "done", "panicked"}) =>
        SelectedRate = Max(Max(sha.minioPerf, sha.minioAvx512Perf), sha.cryptoPerf)

\* C20: once SelectAlgo has made its selection, the AVX-512 server list is
\* non-empty whenever the AVX-512 implementation is the selected one, so
\* that no hash creation of SelectAlgo or after it panics; and with
\* STHASHING unset the selected implementation's rate is the maximum of the
\* three measured rates.
C20_Avx512ServersWhenSelected ==
    /\ (sha.pc \in {"verify", "done", "panicked"}
          /\ sha.selectedImpl = minioAvx512Impl) => sha.avx512Servers > 0
    /\ sha.pc # "panicked"
    /\ SelectedRateIsMax

\* The AVX-512 implementation chosen by the benchmark, on a tie with the
\* Go implementation.
BenchmarkPicksAvx512 ==
    /\ sha.pc = "done" /\ sha.STHASHING = "" /\ sha.selectedImpl = minioAvx512Impl
    /\ sha.cryptoPerf = sha.minioAvx512Perf /\ sha.avx512Servers = 2

\* C14: a dial whose context was done before it returned has returned
\* failure, holding no connection: with the error of the context, or with
\* the error of an address no dialer took; and no attempt of it that ended
\* after the context was done has established a connection.
C14_CancellationAbortsDial ==
    \A c \in CallIds :
        (Returned(c) /\ calls[c].ctx = "done") =>
            /\ calls[c].err # NilErr
            /\ calls[c].conn = NilConn
            /\ calls[c].err.msg \in {"context canceled", "bad address"}

\* A dial through the proxy has returned success although its context was
\* cancelled while the attempt was in flight.
CancelledDialConnected ==
    \E c \in CallIds :
        /\ Returned(c) /\ calls[c].ctx = "done" /\ calls[c].err = NilErr
        /\ calls[c].trace[1].via = "Proxy"

\* -------------------------------------------------- dialContextReusePort

MaxReuseDials == 2

\* Local addresses of listeners: the wildcard and two specific ones.
LocalAddrs == {"0.0.0.0:22000", "192.0.2.1:22000", "192.0.2.2:22000"}
IsUnspecified(a) == a = "0.0.0.0:22000"

\* util.AddressUnspecifiedLess: the unspecified address before a specific one.
AddressUnspecifiedLess(a, b) == IsUnspecified(a) /\ ~IsUnspecified(b)

\* tcpAddrLess with its arguments exchanged.
tcpAddrLess_Swapped(i, j) == AddressUnspecifiedLess(j, i)

\* tcpAddrLess
tcpAddrLess(i, j) == AddressUnspecifiedLess(i, j)

\* registry.Get(network, less): what it may return, a least address of the
\* kind, or nil when the kind has none.
registryGet(registry, network) ==
    IF registry[network] = {} THEN {NoAddr}
    ELSE {a \in registry[network] : \A b \in registry[network] : ~tcpAddrLess(b, a)}

InitReuse ==
    /\ DialerAtRest /\ built = <<>> /\ sw = newSeparatingWriter(<<"-">>)
    /\ sha = ShaLoaded(FALSE, 1, "")
    /\ reuse = ReuseIdle(EmptyRegistry)

\* A listener starts or stops: its address enters or leaves the registry.
Register(kind, a) ==
    /\ a \notin reuse.registry[kind]
    /\ reuse' = [reuse EXCEPT !.registry[kind] = @ \cup {a}]
    /\ UNCHANGED <<dialerVars, built, sw, sha>>

Unregister(kind, a) ==
    /\ a \in reuse.registry[kind]
    /\ reuse' = [reuse EXCEPT !.registry[kind] = @ \ {a}]
    /\ UNCHANGED <<dialerVars, built, sw, sha>>

\* dialContextReusePort, lines 171-177: the dialer is built with the
\* control function, and with the registry's address when there is one;
\* `seen` keeps what the registry held for the kind at this lookup.
ReusePortLookup(network, addr) ==
    /\ reuse.pc = "idle"
    /\ reuse.started < MaxReuseDials
    /\ \E local \in registryGet(reuse.registry, network) :
          reuse' = [ReuseIdle(reuse.registry) EXCEPT
                      !.started = reuse.started + 1,
                      !.pc = "dialing", !.network = network, !.addr = addr,
                      !.Control = "ReusePortControl",
                      !.LocalAddr = local,
                      !.seen = reuse.registry[network]]
    /\ UNCHANGED <<dialerVars, built, sw, sha>>

\* The caller's context is cancelled while the dial is under way.
ReuseCancel ==
    /\ reuse.pc = "dialing" /\ reuse.ctx = "live"
    /\ reuse' = [reuse EXCEPT !.ctx = "done"]
    /\ UNCHANGED <<dialerVars, built, sw, sha>>

\* dialContextReusePort, lines 179-183: dialer.DialContext(ctx, network,
\* addr) and the return of its result; connected tells whether the network
\* let the connection through.
ReusePortConnect ==
    /\ reuse.pc = "dialing"
    /\ \E connected \in BOOLEAN :
          reuse' = [reuse EXCEPT
                      !.pc = "returned", !.connected = connected,
                      !.conn = IF connected /\ reuse.ctx = "live"
                               THEN [type |-> "netConn", local |-> reuse.LocalAddr,
                                     reusePort |-> reuse.Control = "ReusePortControl"]
                               ELSE NilConn,
                      !.err = IF reuse.ctx = "done"
                              THEN [src |-> "context", msg |-> "context canceled", n |-> 1]
                              ELSE IF connected THEN NilErr
                              ELSE [src |-> "Direct", msg |-> "connection refused", n |-> 1]]
    /\ UNCHANGED <<dialerVars, built, sw, sha>>

\* The caller takes the result.
ReuseReturn ==
    /\ reuse.pc = "returned"
    /\ reuse' = [ReuseIdle(reuse.registry) EXCEPT !.started = reuse.started]
    /\ UNCHANGED <<dialerVars, built, sw, sha>>

NextReuse ==
    \/ \E kind \in RegistryKinds, a \in LocalAddrs : Register(kind, a)
    \/ \E kind \in RegistryKinds, a \in LocalAddrs : Unregister(kind, a)
    \/ \E network \in RegistryKinds, addr \in {"192.0.2.7:22000"} : ReusePortLookup(network, addr)
    \/ ReuseCancel
    \/ ReusePortConnect
    \/ ReuseReturn

SpecReuse == InitReuse /\ [][NextReuse]_vars

\* C16: a dial of dialContextReusePort under way or returned has the
\* reuse-port control set; when the registry held addresses of the network
\* kind at the lookup, its local address is one of them that none of them
\* precedes, the wildcard if that was among them; when it held none, no
\* local address is bound, and the dial returns the connection whenever the
\* network lets it through under a live context.
C16_LocalAddrFromRegistry ==
    reuse.pc \in {"dialing", "returned"} =>
        /\ reuse.Control = "ReusePortControl"
        /\ reuse.seen # {} =>
              /\ reuse.LocalAddr \in reuse.seen
              /\ \A b \in reuse.seen : ~AddressUnspecifiedLess(b, reuse.LocalAddr)
              /\ (\E w \in reuse.seen : IsUnspecified(w)) => IsUnspecified(reuse.LocalAddr)
        /\ reuse.seen = {} =>
              /\ reuse.LocalAddr = NoAddr
              /\ (reuse.pc = "returned" /\ reuse.connected /\ reuse.ctx = "live") =>
                    (reuse.err = NilErr /\ reuse.conn.local = NoAddr /\ reuse.conn.reusePort)
        /\ (reuse.pc = "returned" /\ reuse.err = NilErr) =>
              (reuse.conn.local = reuse.LocalAddr /\ reuse.conn.reusePort)

\* C16, witness: a dial bound to the wildcard address, looked up while a
\* specific address was registered too, has connected after the wildcard
\* left the registry.
C16_Witness ==
    /\ reuse.pc = "returned" /\ reuse.err = NilErr
    /\ reuse.seen = {"0.0.0.0:22000", "192.0.2.1:22000"}
    /\ reuse.LocalAddr = "0.0.0.0:22000"
    /\ reuse.registry[reuse.network] = {"192.0.2.1:22000"}

\* C16, the case of no entry: a dial looked up in an empty registry has
\* connected with no local address bound, an address registered since.
ReuseDialUnbound ==
    /\ reuse.pc = "returned" /\ reuse.err = NilErr
    /\ reuse.seen = {} /\ reuse.LocalAddr = NoAddr
    /\ reuse.registry[reuse.network] # {}

====
